---- MODULE Spec2Model ----
(***************************************************************************)
(* Weekly purchase/sales records of the poultry shop: the metrics          *)
(* derivation (frontend/utils/calculations.ts), the storage service        *)
(* (services/storageService.ts), the two entry forms, the App component's  *)
(* handlers and the Express/Mongoose backend.                              *)
(*                                                                         *)
(* Representation.                                                         *)
(*  - A JavaScript object is a function from field names to values; a      *)
(*    field that is undefined (or dropped by JSON.stringify) is a name     *)
(*    outside the DOMAIN.                                                  *)
(*  - A JavaScript number is an exact rational <<n, d>> with d > 0 in      *)
(*    lowest terms, so that the divisions of the derivation are computed   *)
(*    and not rounded away.                                                *)
(*  - A weekDate 'YYYY-MM-DD' is the ordinal of its day: the string order  *)
(*    MongoDB sorts by is the order of the ordinals.                       *)
(*  - An ISO timestamp is the tick of the clock it was taken at.           *)
(*  - The text of a number input is <<>> when empty and <<v>> for the      *)
(*    number v; the errors of a form are the set of the keys that have a   *)
(*    message.                                                             *)
(***************************************************************************)
EXTENDS Integers, Sequences, FiniteSets, Bags, TLC

VARIABLES
    store,        \* the MongoDB collection: id -> document
    nextId,       \* how many ids the database has assigned
    now,          \* the clock read by new Date()
    token,        \* localStorage holds the auth token
    user,         \* App state: a user is logged in
    view,         \* App state: the current AppView
    records,      \* App state: the list of the last completed load
    loading,      \* App state
    error,        \* App state: the load error is set
    activeRecord, \* App state: undefined/null is NoRecord
    timers,       \* the setTimeout callbacks of the forms not yet run, oldest first
    tasks,        \* the handler invocations waiting for a response (a bag)
    calcIn,      \* a record handed to calculateRecordMetrics
    calcAlt,     \* a record with the raw fields of calcIn and other computed values
    calcOut,     \* calculateRecordMetrics(calcIn)
    calcOutAlt,  \* calculateRecordMetrics(calcAlt)
    calcOut2,    \* calculateRecordMetrics(calcOut)
    calcStep,    \* how many times the derivation has been applied to calcIn
    formValues,  \* form state formData: the texts of the fields of the form filled in
    errors,      \* form state: the keys of the errors the last validate has set
    showSuccess  \* form state: the form has set its success overlay

calcVars == <<calcIn, calcAlt, calcOut, calcOutAlt, calcOut2, calcStep>>

formVars == <<formValues, errors, showSuccess>>

appVars ==
    <<store, nextId, now, token, user, view, records, loading, error,
      activeRecord, timers, tasks>>

vars == <<appVars, calcVars, formVars>>

----------------------------------------------------------------------------
(* JavaScript numbers as exact rationals *)

Abs(n) == IF n < 0 THEN -n ELSE n

RECURSIVE GCD(_, _)
GCD(a, b) == IF b = 0 THEN a ELSE GCD(b, a % b)

\* the rational n/d (d # 0) in lowest terms with a positive denominator
Norm(n, d) ==
    LET s == IF d < 0 THEN -1 ELSE 1
        g == GCD(Abs(n), Abs(d))
    IN  <<(s * n) \div g, (s * d) \div g>>

Q(n) == <<n, 1>>
Zero == Q(0)

RAdd(a, b) == Norm(a[1] * b[2] + b[1] * a[2], a[2] * b[2])
RSub(a, b) == Norm(a[1] * b[2] - b[1] * a[2], a[2] * b[2])
RMul(a, b) == Norm(a[1] * b[1], a[2] * b[2])
RDiv(a, b) == Norm(a[1] * b[2], a[2] * b[1])
RLt(a, b)  == a[1] * b[2] < b[1] * a[2]
RGt(a, b)  == RLt(b, a)
RLe(a, b)  == ~RLt(b, a)
RIsInteger(a) == a[2] = 1

----------------------------------------------------------------------------
(* The WeeklyRecord type *)

PurchaseFields == {"totalHens", "totalLiveWeight", "purchaseRate"}

SalesFields ==
    {"sellingPrice", "cashCollected", "upiCollected", "expenseTea", "expenseFuel"}

SalesComputedFields ==
    {"totalRevenue", "meatSold", "wastage", "wastagePercentage",
     "totalExpenses", "netProfit", "profitPerHen", "profitPerKg"}

ComputedFields == {"totalPurchaseCost"} \cup SalesComputedFields

RawFields == PurchaseFields \cup {"isSalesEntryComplete"} \cup SalesFields

Has(record, f) == f \in DOMAIN record

\* record.f || 0
OrZero(record, f) == IF Has(record, f) THEN record[f] ELSE Zero

\* the object without the keys in fs
Without(record, fs) == [f \in (DOMAIN record) \ fs |-> record[f]]

\* the object restricted to the keys in fs
Pick(record, fs) == [f \in (DOMAIN record) \cap fs |-> record[f]]

----------------------------------------------------------------------------
(* calculations.ts: calculateRecordMetrics *)

TotalPurchaseCost(record) == RMul(record.totalLiveWeight, record.purchaseRate)

TotalRevenue(cash, upi) == RAdd(cash, upi)

\* the division taken with a price of 1 where no price is set
MeatSoldPriceOne(totalRevenue, sellingPrice) ==
    IF RGt(sellingPrice, Zero) THEN RDiv(totalRevenue, sellingPrice) ELSE totalRevenue

MeatSold(totalRevenue, sellingPrice) ==
    IF RGt(sellingPrice, Zero) THEN RDiv(totalRevenue, sellingPrice) ELSE Zero

\* the wastage clamped at zero
WastageClamped(record, meatSold) ==
    IF RGt(meatSold, record.totalLiveWeight) THEN Zero
    ELSE RSub(record.totalLiveWeight, meatSold)

Wastage(record, meatSold) == RSub(record.totalLiveWeight, meatSold)

WastagePercentage(record, wastage) ==
    IF RGt(record.totalLiveWeight, Zero)
    THEN RMul(RDiv(wastage, record.totalLiveWeight), Q(100))
    ELSE Zero

TotalExpenses(expenseTea, expenseFuel) == RAdd(expenseTea, expenseFuel)

NetProfitClamped(totalRevenue, totalPurchaseCost, totalExpenses) ==
    LET p == RSub(totalRevenue, RAdd(totalPurchaseCost, totalExpenses))
    IN  IF RLt(p, Zero) THEN Zero ELSE p

NetProfit(totalRevenue, totalPurchaseCost, totalExpenses) ==
    RSub(totalRevenue, RAdd(totalPurchaseCost, totalExpenses))

ProfitPerHen(record, netProfit) ==
    IF RGt(record.totalHens, Zero) THEN RDiv(netProfit, record.totalHens) ELSE Zero

\* the guard of profitPerKg testing meatSold !== 0
ProfitPerKgNonZero(netProfit, meatSold) ==
    IF meatSold # Zero THEN RDiv(netProfit, meatSold) ELSE Zero

ProfitPerKg(netProfit, meatSold) ==
    IF RGt(meatSold, Zero) THEN RDiv(netProfit, meatSold) ELSE Zero

\* the derivation with the sales-stage fields computed in the purchase state too
calculateRecordMetricsAlways(record) ==
    LET cost     == RMul(record.totalLiveWeight, record.purchaseRate)
        revenue  == RAdd(OrZero(record, "cashCollected"), OrZero(record, "upiCollected"))
    IN  [totalPurchaseCost |-> cost, totalRevenue |-> revenue] @@ record

\* the derivation adding the cost to the cost the record already carries
calculateRecordMetricsDrift(record) ==
    LET cost == RAdd(OrZero(record, "totalPurchaseCost"),
                     RMul(record.totalLiveWeight, record.purchaseRate))
    IN  [totalPurchaseCost |-> cost] @@ record

calculateRecordMetrics(record) ==
    LET totalPurchaseCost == TotalPurchaseCost(record)
    IN  IF ~record.isSalesEntryComplete
        THEN [totalPurchaseCost |-> totalPurchaseCost] @@ record
        ELSE
          LET sellingPrice == OrZero(record, "sellingPrice")
              cash         == OrZero(record, "cashCollected")
              upi          == OrZero(record, "upiCollected")
              expenseTea   == OrZero(record, "expenseTea")
              expenseFuel  == OrZero(record, "expenseFuel")
              totalRevenue == TotalRevenue(cash, upi)
              meatSold     == MeatSold(totalRevenue, sellingPrice)
              wastage      == Wastage(record, meatSold)
              wastagePercentage == WastagePercentage(record, wastage)
              totalExpenses == TotalExpenses(expenseTea, expenseFuel)
              netProfit    == NetProfit(totalRevenue, totalPurchaseCost, totalExpenses)
              profitPerHen == ProfitPerHen(record, netProfit)
              profitPerKg  == ProfitPerKg(netProfit, meatSold)
          IN  [totalPurchaseCost |-> totalPurchaseCost,
               totalRevenue      |-> totalRevenue,
               meatSold          |-> meatSold,
               wastage           |-> wastage,
               wastagePercentage |-> wastagePercentage,
               totalExpenses     |-> totalExpenses,
               netProfit         |-> netProfit,
               profitPerHen      |-> profitPerHen,
               profitPerKg       |-> profitPerKg] @@ record

----------------------------------------------------------------------------
(* Bounds of the model *)

\* The clock advances with every gesture of the operator that starts a request
\* or a timer or ends the session (a login, a logout, a retry, a delete, a valid
\* submission); the operator makes such gestures while the clock is at most
\* MaxClock. Navigation, timers and responses are not bounded.
MaxClock == 2

----------------------------------------------------------------------------
(* types.ts and the values of the model *)

\* undefined, null
NoRecord == <<>>

IsRecord(r) == DOMAIN r # {}

\* the ObjectIds MongoDB hands out, in the order it hands them out
ObjectIds == <<"id1", "id2", "id3", "id4", "id5", "id6", "id7", "id8">>

\* String.prototype.trim on the ids of the model
Trim(s) == IF s \in {"", " ", "  "} THEN "" ELSE s

----------------------------------------------------------------------------
(* backend/server.js *)

SchemaPaths ==
    {"weekDate", "createdAt", "salesCompletedAt", "isSalesEntryComplete",
     "totalPurchaseCost"} \cup PurchaseFields \cup SalesFields \cup SalesComputedFields

\* the transform deleting _id without setting id
ToJSONDropId(db, id) == db[id]

\* RecordSchema.set('toJSON'): the document with id = _id
ToJSON(db, id) == [id |-> id] @@ db[id]

\* new RecordModel(req.body).save(): the paths of the schema, under a fresh _id
PostRecords(db, id, body) == (id :> Pick(body, SchemaPaths)) @@ db

\* findByIdAndUpdate(id, req.body): the paths of the body are set, the other
\* paths of the document are kept as they are; no document, no change
PutRecord(db, id, body) ==
    IF id \in DOMAIN db
    THEN [db EXCEPT ![id] = Pick(body, SchemaPaths) @@ @]
    ELSE db

\* deleteMany() in the place of findByIdAndDelete(id)
DeleteRecordByIdAll(db, id) == <<>>

\* findByIdAndDelete(id)
DeleteRecordById(db, id) == [i \in (DOMAIN db) \ {id} |-> db[i]]

\* sort({weekDate: -1}): the orders of the ids by weekDate descending; the order
\* of documents with the same weekDate is the database's choice
RECURSIVE SortedOrders(_, _)
SortedOrders(db, ids) ==
    IF ids = {} THEN {<<>>}
    ELSE UNION { { <<i>> \o rest : rest \in SortedOrders(db, ids \ {i}) } :
                 i \in { i \in ids : \A j \in ids : db[i].weekDate >= db[j].weekDate } }

\* RecordModel.find() without the sort: the documents in the order of their ids
GetRecordsUnsorted(db) ==
    LET order == SelectSeq(ObjectIds, LAMBDA i : i \in DOMAIN db)
    IN  { [k \in 1..Len(order) |-> ToJSON(db, order[k])] }

\* app.get('/records'): RecordModel.find().sort({weekDate: -1}), as JSON
GetRecords(db) ==
    { [k \in 1..Len(order) |-> ToJSON(db, order[k])] :
        order \in SortedOrders(db, DOMAIN db) }

----------------------------------------------------------------------------
(* services/storageService.ts *)

\* { id: _id || data.id, ...rest }
mapToFrontend(data) ==
    IF ~IsRecord(data) THEN data
    ELSE Without(data, {"_id"}) @@
         (IF Has(data, "_id") THEN [id |-> data._id]
          ELSE IF Has(data, "id") THEN [id |-> data.id]
          ELSE <<>>)

\* saveRecord: !record.id || record.id.trim() === ''
IsNewRecordAlways(record) == TRUE

\* saveRecord: !record.id || record.id === '', the id not trimmed
IsNewRecordNoTrim(record) == ~Has(record, "id") \/ record.id = ""

IsNewRecord(record) == ~Has(record, "id") \/ record.id = "" \/ Trim(record.id) = ""

\* saveRecord: the record as it is handed in
ProcessedRecordRaw(record) == record

\* saveRecord: const processedRecord = calculateRecordMetrics(record)
ProcessedRecord(record) == calculateRecordMetrics(record)

\* saveRecord: the body of the request
Payload(record) ==
    IF IsNewRecord(record)
    THEN Without(ProcessedRecord(record), {"id", "_id"})
    ELSE ProcessedRecord(record)

----------------------------------------------------------------------------
(* components/PurchaseForm.tsx and components/SalesForm.tsx *)

\* The text of a form field is <<>> for the empty string and <<v>> for the
\* text of the number (or the date) v.
Number(text) == IF text = <<>> THEN Zero ELSE text[1]

\* number.toString(), and record.f?.toString() || ''
ToText(record, f) == IF Has(record, f) THEN <<record[f]>> ELSE <<>>

\* validate with the isValid = false of the totalHens rule left out
IsValidButHens(newErrors) == newErrors \ {"totalHens"} = {}

\* validate with the isValid = false of the totalLiveWeight rule left out
IsValidButWeight(newErrors) == newErrors \ {"totalLiveWeight"} = {}

\* validate: isValid, false as soon as one rule has reported
IsValid(newErrors) == newErrors = {}

\* PurchaseForm.validate: the fields it reports
PurchaseErrors(formData) ==
    {f \in {"date"} : formData.date = <<>>}
    \cup {f \in {"totalHens"} :
            \/ formData.totalHens = <<>>
            \/ RLe(Number(formData.totalHens), Zero)
            \/ ~RIsInteger(Number(formData.totalHens))}
    \cup {f \in {"totalLiveWeight"} :
            formData.totalLiveWeight = <<>> \/ RLe(Number(formData.totalLiveWeight), Zero)}
    \cup {f \in {"purchaseRate"} :
            formData.purchaseRate = <<>> \/ RLe(Number(formData.purchaseRate), Zero)}

\* PurchaseForm.handleSubmit stamping createdAt at every submission
PurchaseRecordRestamped(existingRecord, formData, clock) ==
    [id |-> IF Has(existingRecord, "id") THEN existingRecord.id ELSE "",
     weekDate |-> formData.date[1],
     totalHens |-> Number(formData.totalHens),
     totalLiveWeight |-> Number(formData.totalLiveWeight),
     purchaseRate |-> Number(formData.purchaseRate),
     totalPurchaseCost |-> Zero,
     createdAt |-> clock,
     isSalesEntryComplete |->
        Has(existingRecord, "isSalesEntryComplete") /\ existingRecord.isSalesEntryComplete]
    @@ Pick(existingRecord, {"salesCompletedAt"} \cup SalesFields)

\* PurchaseForm.handleSubmit: the record handed to onSave
PurchaseRecord(existingRecord, formData, clock) ==
    [id |-> IF Has(existingRecord, "id") THEN existingRecord.id ELSE "",
     weekDate |-> formData.date[1],
     totalHens |-> Number(formData.totalHens),
     totalLiveWeight |-> Number(formData.totalLiveWeight),
     purchaseRate |-> Number(formData.purchaseRate),
     totalPurchaseCost |-> Zero,
     createdAt |-> IF Has(existingRecord, "createdAt")
                   THEN existingRecord.createdAt ELSE clock,
     isSalesEntryComplete |->
        Has(existingRecord, "isSalesEntryComplete") /\ existingRecord.isSalesEntryComplete]
    @@ Pick(existingRecord, {"salesCompletedAt"} \cup SalesFields)

\* SalesForm.validate without the rule on cash + upi
SalesErrorsNoRevenueRule(formData) ==
    {f \in {"totalHens"} :
            \/ formData.totalHens = <<>>
            \/ RLe(Number(formData.totalHens), Zero)
            \/ ~RIsInteger(Number(formData.totalHens))}
    \cup {f \in {"totalLiveWeight"} :
            formData.totalLiveWeight = <<>> \/ RLe(Number(formData.totalLiveWeight), Zero)}
    \cup {f \in {"purchaseRate"} :
            formData.purchaseRate = <<>> \/ RLe(Number(formData.purchaseRate), Zero)}
    \cup {f \in {"sellingPrice"} :
            formData.sellingPrice = <<>> \/ RLe(Number(formData.sellingPrice), Zero)}
    \cup {f \in {"cashCollected"} : RLt(Number(formData.cashCollected), Zero)}
    \cup {f \in {"upiCollected"} : RLt(Number(formData.upiCollected), Zero)}
    \cup {f \in {"expenseTea"} : RLt(Number(formData.expenseTea), Zero)}
    \cup {f \in {"expenseFuel"} : RLt(Number(formData.expenseFuel), Zero)}

\* SalesForm.validate returning at the first purchase field it reports
SalesErrorsFirstOnly(formData) ==
    IF \/ formData.totalHens = <<>>
       \/ RLe(Number(formData.totalHens), Zero)
       \/ ~RIsInteger(Number(formData.totalHens))
    THEN {"totalHens"}
    ELSE IF formData.totalLiveWeight = <<>> \/ RLe(Number(formData.totalLiveWeight), Zero)
    THEN {"totalLiveWeight"}
    ELSE IF formData.purchaseRate = <<>> \/ RLe(Number(formData.purchaseRate), Zero)
    THEN {"purchaseRate"}
    ELSE SalesErrorsNoRevenueRule(formData)
         \cup {f \in {"general"} :
                 /\ RGt(Number(formData.sellingPrice), Zero)
                 /\ RLe(RAdd(Number(formData.cashCollected),
                             Number(formData.upiCollected)), Zero)}

\* SalesForm.validate: the fields it reports
SalesErrors(formData) ==
    {f \in {"totalHens"} :
            \/ formData.totalHens = <<>>
            \/ RLe(Number(formData.totalHens), Zero)
            \/ ~RIsInteger(Number(formData.totalHens))}
    \cup {f \in {"totalLiveWeight"} :
            formData.totalLiveWeight = <<>> \/ RLe(Number(formData.totalLiveWeight), Zero)}
    \cup {f \in {"purchaseRate"} :
            formData.purchaseRate = <<>> \/ RLe(Number(formData.purchaseRate), Zero)}
    \cup {f \in {"sellingPrice"} :
            formData.sellingPrice = <<>> \/ RLe(Number(formData.sellingPrice), Zero)}
    \cup {f \in {"cashCollected"} : RLt(Number(formData.cashCollected), Zero)}
    \cup {f \in {"upiCollected"} : RLt(Number(formData.upiCollected), Zero)}
    \cup {f \in {"general"} :
            /\ RGt(Number(formData.sellingPrice), Zero)
            /\ RLe(RAdd(Number(formData.cashCollected), Number(formData.upiCollected)), Zero)}
    \cup {f \in {"expenseTea"} : RLt(Number(formData.expenseTea), Zero)}
    \cup {f \in {"expenseFuel"} : RLt(Number(formData.expenseFuel), Zero)}

\* SalesForm.handleSubmit: the record handed to onSave
SalesRecord(record, formData, clock) ==
    [totalHens |-> Number(formData.totalHens),
     totalLiveWeight |-> Number(formData.totalLiveWeight),
     purchaseRate |-> Number(formData.purchaseRate),
     isSalesEntryComplete |-> TRUE,
     salesCompletedAt |-> clock,
     sellingPrice |-> Number(formData.sellingPrice),
     cashCollected |-> Number(formData.cashCollected),
     upiCollected |-> Number(formData.upiCollected),
     expenseTea |-> Number(formData.expenseTea),
     expenseFuel |-> Number(formData.expenseFuel)] @@ record

\* PurchaseForm: useState(formData), and the effect that fills it from existingRecord
PurchaseFormData(existingRecord, today) ==
    IF IsRecord(existingRecord)
    THEN [date |-> ToText(existingRecord, "weekDate"),
          totalHens |-> ToText(existingRecord, "totalHens"),
          totalLiveWeight |-> ToText(existingRecord, "totalLiveWeight"),
          purchaseRate |-> ToText(existingRecord, "purchaseRate")]
    ELSE [date |-> <<today>>, totalHens |-> <<>>, totalLiveWeight |-> <<>>,
          purchaseRate |-> <<>>]

\* SalesForm: useState(formData)
SalesFormData(record) ==
    [f \in PurchaseFields \cup SalesFields |-> ToText(record, f)]

\* SalesForm: the estimate taken from the cash alone
EstMeatSoldCashOnly(formData) ==
    IF RGt(Number(formData.sellingPrice), Zero)
    THEN RDiv(Number(formData.cashCollected), Number(formData.sellingPrice))
    ELSE Zero

\* SalesForm: revenue and estMeatSold of the render
EstMeatSold(formData) ==
    LET revenue == RAdd(Number(formData.cashCollected), Number(formData.upiCollected))
    IN  IF RGt(Number(formData.sellingPrice), Zero)
        THEN RDiv(revenue, Number(formData.sellingPrice))
        ELSE Zero

\* SalesForm: Number(formData.totalLiveWeight) || 0
CurrentLiveWeight(formData) == Number(formData.totalLiveWeight)

\* SalesForm: the warning 'Meat sold exceeds live weight!' is rendered
WarningShown(formData) == RGt(EstMeatSold(formData), CurrentLiveWeight(formData))

----------------------------------------------------------------------------
(* What the operator types into the forms *)

PurchaseInputs ==
    { [date |-> <<1>>, totalHens |-> <<Q(2)>>, totalLiveWeight |-> <<Q(3)>>,
       purchaseRate |-> <<Q(2)>>],
      [date |-> <<2>>, totalHens |-> <<Q(2)>>, totalLiveWeight |-> <<Q(4)>>,
       purchaseRate |-> <<Q(2)>>],
      [date |-> <<1>>, totalHens |-> <<Q(0)>>, totalLiveWeight |-> <<Q(3)>>,
       purchaseRate |-> <<Q(2)>>],
      [date |-> <<>>, totalHens |-> <<Norm(5, 2)>>, totalLiveWeight |-> <<Q(3)>>,
       purchaseRate |-> <<>>] }

\* the sales form: the purchase fields as the form shows them and one set of sales
\* figures, or the weight changed and another set; then submissions it rejects
SalesInputs(record) ==
    LET shown == [totalHens |-> ToText(record, "totalHens"),
                  totalLiveWeight |-> ToText(record, "totalLiveWeight"),
                  purchaseRate |-> ToText(record, "purchaseRate")]
    IN  { [sellingPrice |-> <<Q(2)>>, cashCollected |-> <<Q(6)>>, upiCollected |-> <<Q(4)>>,
           expenseTea |-> <<Q(1)>>, expenseFuel |-> <<Q(1)>>] @@ shown,
          [totalLiveWeight |-> <<Q(5)>>,
           sellingPrice |-> <<Q(2)>>, cashCollected |-> <<Q(5)>>, upiCollected |-> <<>>,
           expenseTea |-> <<>>, expenseFuel |-> <<>>] @@ shown,
          [sellingPrice |-> <<Q(2)>>, cashCollected |-> <<>>, upiCollected |-> <<Q(0)>>,
           expenseTea |-> <<>>, expenseFuel |-> <<>>] @@ shown,
          [sellingPrice |-> <<>>, cashCollected |-> <<Q(-1)>>, upiCollected |-> <<Q(4)>>,
           expenseTea |-> <<>>, expenseFuel |-> <<>>] @@ shown }

----------------------------------------------------------------------------
(* App.tsx *)

\* the main content is rendered: logged in, not loading, no load error
Shown == user /\ ~loading /\ ~error

PurchaseFormShown == Shown /\ view = "ENTRY_PURCHASE"

SalesFormShown == Shown /\ view = "ENTRY_SALES" /\ IsRecord(activeRecord)

Task(kind, pc, record, id, saved) ==
    [kind |-> kind, pc |-> pc, record |-> record, id |-> id, saved |-> saved]

Start(t) == tasks (+) SetToBag({t})

Replace(t, u) == (tasks (-) SetToBag({t})) (+) SetToBag({u})

Finish(t) == tasks (-) SetToBag({t})

\* the operator may still act
CanAct == now <= MaxClock

Tick == now' = now + 1

\* The database outlives the sessions of the application: it starts empty, or
\* with the purchase of an earlier week as the application stored it at tick 0.
EarlierPurchase ==
    [date |-> <<1>>, totalHens |-> <<Q(2)>>, totalLiveWeight |-> <<Q(3)>>,
     purchaseRate |-> <<Q(2)>>]

InitialStores ==
    { <<>>,
      PostRecords(<<>>, ObjectIds[1], Payload(PurchaseRecord(NoRecord, EarlierPurchase, 0))) }

\* App after its first effect has run: getCurrentUser() finds no user and loading
\* is cleared, or finds the user of an earlier login and loadData is under way
AppInit ==
    /\ store \in InitialStores
    /\ nextId = Cardinality(DOMAIN store)
    /\ now = 1
    /\ user \in BOOLEAN
    /\ token = user
    /\ view = "DASHBOARD"
    /\ records = <<>>
    /\ loading = user
    /\ error = FALSE
    /\ activeRecord = NoRecord
    /\ timers = <<>>
    /\ tasks = IF user THEN SetToBag({Task("load", "load", NoRecord, "", NoRecord)})
                       ELSE EmptyBag

\* AuthForm: login succeeds; handleLoginSuccess: setUser, loadData
Login ==
    /\ ~user
    /\ CanAct /\ Tick
    /\ token' = TRUE
    /\ user' = TRUE
    /\ loading' = TRUE
    /\ error' = FALSE
    /\ tasks' = Start(Task("load", "load", NoRecord, "", NoRecord))
    /\ UNCHANGED <<store, nextId, view, records, activeRecord, timers, calcVars, formVars>>

handleLogout ==
    /\ user
    /\ CanAct /\ Tick
    /\ token' = FALSE
    /\ user' = FALSE
    /\ records' = <<>>
    /\ view' = "DASHBOARD"
    /\ UNCHANGED <<store, nextId, loading, error, activeRecord, timers, tasks,
                   calcVars, formVars>>

\* the Retry button of the error screen
Retry ==
    /\ user /\ ~loading /\ error
    /\ CanAct /\ Tick
    /\ loading' = TRUE
    /\ error' = FALSE
    /\ tasks' = Start(Task("load", "load", NoRecord, "", NoRecord))
    /\ UNCHANGED <<store, nextId, token, user, view, records, activeRecord,
                   timers, calcVars, formVars>>

\* the Home button of the navigation bar
NavDashboard ==
    /\ user
    /\ view' = "DASHBOARD"
    /\ UNCHANGED <<store, nextId, now, token, user, records, loading, error,
                   activeRecord, timers, tasks, calcVars, formVars>>

\* the History button of the navigation bar
NavHistory ==
    /\ user
    /\ view' = "HISTORY"
    /\ UNCHANGED <<store, nextId, now, token, user, records, loading, error,
                   activeRecord, timers, tasks, calcVars, formVars>>

\* onCancel of either form
CancelForm ==
    /\ PurchaseFormShown \/ SalesFormShown
    /\ view' = "DASHBOARD"
    /\ UNCHANGED <<store, nextId, now, token, user, records, loading, error,
                   activeRecord, timers, tasks, calcVars, formVars>>

\* the + button of the navigation bar, or onAddPurchase of the dashboard
startPurchaseEntry ==
    /\ user
    /\ activeRecord' = NoRecord
    /\ view' = "ENTRY_PURCHASE"
    /\ UNCHANGED <<store, nextId, now, token, user, records, loading, error,
                   timers, tasks, calcVars, formVars>>

\* records.find(r => !r.isSalesEntryComplete)
FirstIncomplete(list) ==
    LET idx == {i \in 1..Len(list) : ~list[i].isSalesEntryComplete}
    IN  IF idx = {} THEN NoRecord
        ELSE list[CHOOSE i \in idx : \A j \in idx : i <= j]

\* onAddSales of the dashboard
startSalesEntry ==
    /\ Shown /\ view = "DASHBOARD"
    /\ LET incomplete == FirstIncomplete(records)
       IN  IF IsRecord(incomplete)
           THEN activeRecord' = incomplete /\ view' = "ENTRY_SALES"
           ELSE activeRecord' = activeRecord /\ view' = "ENTRY_PURCHASE"
    /\ UNCHANGED <<store, nextId, now, token, user, records, loading, error,
                   timers, tasks, calcVars, formVars>>

\* onEdit of the history list
handleEdit ==
    /\ Shown /\ view = "HISTORY"
    /\ \E i \in 1..Len(records) :
          /\ activeRecord' = records[i]
          /\ view' = IF records[i].isSalesEntryComplete
                     THEN "ENTRY_SALES" ELSE "ENTRY_PURCHASE"
    /\ UNCHANGED <<store, nextId, now, token, user, records, loading, error,
                   timers, tasks, calcVars, formVars>>

\* onContinue of the history list, offered for the records that are not complete
handleHistoryContinue ==
    /\ Shown /\ view = "HISTORY"
    /\ \E i \in 1..Len(records) :
          /\ ~records[i].isSalesEntryComplete
          /\ activeRecord' = records[i]
          /\ view' = "ENTRY_SALES"
    /\ UNCHANGED <<store, nextId, now, token, user, records, loading, error,
                   timers, tasks, calcVars, formVars>>

\* onDelete of the history list: the DELETE request is sent
handleDelete ==
    /\ Shown /\ view = "HISTORY"
    /\ CanAct /\ Tick
    /\ \E i \in 1..Len(records) :
          tasks' = Start(Task("delete", "save", NoRecord, records[i].id, NoRecord))
    /\ UNCHANGED <<store, nextId, token, user, view, records, loading, error,
                   activeRecord, timers, calcVars, formVars>>

\* PurchaseForm.handleSubmit: validate, build the record, setTimeout(onSave)
SubmitPurchase ==
    /\ PurchaseFormShown
    /\ CanAct /\ Tick
    /\ \E formData \in PurchaseInputs :
          /\ IsValid(PurchaseErrors(formData))
          /\ timers' = Append(timers,
                [kind |-> "savePurchase",
                 record |-> PurchaseRecord(activeRecord, formData, now)])
    /\ UNCHANGED <<store, nextId, token, user, view, records, loading, error,
                   activeRecord, tasks, calcVars, formVars>>

\* SalesForm.handleSubmit: validate, build the record, setTimeout(onSave)
SubmitSales ==
    /\ SalesFormShown
    /\ CanAct /\ Tick
    /\ \E formData \in SalesInputs(activeRecord) :
          /\ IsValid(SalesErrors(formData))
          /\ timers' = Append(timers,
                [kind |-> "saveSales",
                 record |-> SalesRecord(activeRecord, formData, now)])
    /\ UNCHANGED <<store, nextId, token, user, view, records, loading, error,
                   activeRecord, tasks, calcVars, formVars>>

\* the oldest timer runs onSave: handleSavePurchase / handleSaveSales up to the
\* request of saveRecord
TimerFires ==
    /\ timers # <<>>
    /\ loading' = TRUE
    /\ tasks' = Start(Task(Head(timers).kind, "save", Head(timers).record, "", NoRecord))
    /\ timers' = Tail(timers)
    /\ UNCHANGED <<store, nextId, now, token, user, view, records, error,
                   activeRecord, calcVars, formVars>>

\* saveRecord: the POST or PUT is served and answered (an update of an id the
\* collection does not hold answers null); the handler goes on to loadData, up
\* to the request of getRecords
SaveResponse ==
    \E t \in BagToSet(tasks) :
      /\ t.kind \in {"savePurchase", "saveSales"} /\ t.pc = "save"
      /\ IF IsNewRecord(t.record)
         THEN /\ nextId' = nextId + 1
              /\ store' = PostRecords(store, ObjectIds[nextId + 1], Payload(t.record))
              /\ tasks' = Replace(t, [t EXCEPT !.pc = "load",
                              !.saved = mapToFrontend(ToJSON(store', ObjectIds[nextId + 1]))])
         ELSE /\ nextId' = nextId
              /\ store' = PutRecord(store, t.record.id, Payload(t.record))
              /\ tasks' = Replace(t, [t EXCEPT !.pc = "load",
                              !.saved = mapToFrontend(
                                          IF t.record.id \in DOMAIN store
                                          THEN ToJSON(store', t.record.id)
                                          ELSE NoRecord)])
      /\ loading' = TRUE
      /\ error' = FALSE
      /\ UNCHANGED <<now, token, user, view, records, activeRecord, timers, calcVars, formVars>>

\* a catch that goes on with the rest of the handler
SaveFailureContinues ==
    \E t \in BagToSet(tasks) :
      /\ t.kind \in {"savePurchase", "saveSales"} /\ t.pc = "save"
      /\ loading' = FALSE
      /\ tasks' = Finish(t)
      /\ activeRecord' = NoRecord
      /\ view' = IF t.kind = "savePurchase" THEN "ENTRY_SALES" ELSE "DASHBOARD"
      /\ UNCHANGED <<store, nextId, now, token, user, records, error,
                     timers, calcVars, formVars>>

\* a catch without setLoading(false)
SaveFailureKeepsLoading ==
    \E t \in BagToSet(tasks) :
      /\ t.kind \in {"savePurchase", "saveSales"} /\ t.pc = "save"
      /\ tasks' = Finish(t)
      /\ UNCHANGED <<store, nextId, now, token, user, view, records, loading, error,
                     activeRecord, timers, calcVars, formVars>>

\* saveRecord throws (the request fails, or the answer is not ok): the catch of
\* the handler
SaveFailure ==
    \E t \in BagToSet(tasks) :
      /\ t.kind \in {"savePurchase", "saveSales"} /\ t.pc = "save"
      /\ loading' = FALSE
      /\ tasks' = Finish(t)
      /\ UNCHANGED <<store, nextId, now, token, user, view, records, error,
                     activeRecord, timers, calcVars, formVars>>

\* deleteRecord: the DELETE is served and answered; handleDelete goes on to loadData
DeleteResponse ==
    \E t \in BagToSet(tasks) :
      /\ t.kind = "delete" /\ t.pc = "save"
      /\ store' = DeleteRecordById(store, t.id)
      /\ loading' = TRUE
      /\ error' = FALSE
      /\ tasks' = Replace(t, [t EXCEPT !.pc = "load"])
      /\ UNCHANGED <<nextId, now, token, user, view, records, activeRecord, timers,
                     calcVars, formVars>>

\* deleteRecord throws: the catch of handleDelete
DeleteFailure ==
    \E t \in BagToSet(tasks) :
      /\ t.kind = "delete" /\ t.pc = "save"
      /\ tasks' = Finish(t)
      /\ UNCHANGED <<store, nextId, now, token, user, view, records, loading, error,
                     activeRecord, timers, calcVars, formVars>>

\* what the handler does once its loadData has returned
Continuation(t) ==
    CASE t.kind = "savePurchase" ->
            activeRecord' = t.saved /\ view' = "ENTRY_SALES"
      [] t.kind = "saveSales" ->
            activeRecord' = NoRecord /\ view' = "DASHBOARD"
      [] OTHER ->
            UNCHANGED <<activeRecord, view>>

\* loadData: getRecords answers, setRecords, finally setLoading(false); then the
\* rest of the handler that awaited it
LoadResponse ==
    \E t \in BagToSet(tasks) :
      /\ t.pc = "load"
      /\ records' \in GetRecords(store)
      /\ loading' = FALSE
      /\ Continuation(t)
      /\ tasks' = Finish(t)
      /\ UNCHANGED <<store, nextId, now, token, user, error, timers, calcVars, formVars>>

\* loadData: getRecords throws, setError, finally setLoading(false); then the
\* rest of the handler that awaited it
LoadFailure ==
    \E t \in BagToSet(tasks) :
      /\ t.pc = "load"
      /\ error' = TRUE
      /\ loading' = FALSE
      /\ Continuation(t)
      /\ tasks' = Finish(t)
      /\ UNCHANGED <<store, nextId, now, token, user, records, timers, calcVars, formVars>>

CalcIdle ==
    /\ calcIn = <<>>
    /\ calcAlt = <<>>
    /\ calcOut = <<>>
    /\ calcOutAlt = <<>>
    /\ calcOut2 = <<>>
    /\ calcStep = 0

\* no form has been mounted
FormIdle ==
    /\ formValues = <<>>
    /\ errors = {}
    /\ showSuccess = FALSE

Init == AppInit /\ CalcIdle /\ FormIdle

Next ==
    \/ Login
    \/ handleLogout
    \/ Retry
    \/ NavDashboard
    \/ NavHistory
    \/ CancelForm
    \/ startPurchaseEntry
    \/ startSalesEntry
    \/ handleEdit
    \/ handleHistoryContinue
    \/ handleDelete
    \/ SubmitPurchase
    \/ SubmitSales
    \/ TimerFires
    \/ SaveResponse
    \/ SaveFailure
    \/ DeleteResponse
    \/ DeleteFailure
    \/ LoadResponse
    \/ LoadFailure

Spec == Init /\ [][Next]_vars

----------------------------------------------------------------------------
(* The derivation applied to records drawn from bounded sets *)

\* an optional numeric field: absent, or one of the values
Optional(f, values) == {<<>>} \cup {f :> v : v \in values}

CalcRaw ==
    { [totalHens |-> h, totalLiveWeight |-> w, purchaseRate |-> Q(2),
       isSalesEntryComplete |-> c] @@ sp @@ ca @@ up @@ te @@ fu :
        h  \in {Q(0), Q(2)},
        w  \in {Q(0), Q(3)},
        c  \in BOOLEAN,
        sp \in Optional("sellingPrice", {Q(0), Q(2)}),
        ca \in Optional("cashCollected", {Q(-4), Q(0), Q(5), Q(6)}),
        up \in Optional("upiCollected", {Q(4)}),
        te \in Optional("expenseTea", {Q(1)}),
        fu \in Optional("expenseFuel", {Q(0), Q(1)}) }

\* computed values a record may carry when it is handed to the derivation
CalcStale ==
    { <<>>,
      [totalPurchaseCost |-> Q(0)],
      [f \in ComputedFields |-> Q(7)] }

CalcInit ==
    /\ \E raw \in CalcRaw : \E s1, s2 \in CalcStale :
          /\ calcIn  = s1 @@ raw
          /\ calcAlt = s2 @@ raw
    /\ calcOut = <<>>
    /\ calcOutAlt = <<>>
    /\ calcOut2 = <<>>
    /\ calcStep = 0
    /\ AppInit /\ store = <<>> /\ ~user
    /\ FormIdle

Derive ==
    /\ calcStep = 0
    /\ calcOut' = calculateRecordMetrics(calcIn)
    /\ calcOutAlt' = calculateRecordMetrics(calcAlt)
    /\ calcStep' = 1
    /\ UNCHANGED <<calcIn, calcAlt, calcOut2, appVars, formVars>>

DeriveAgain ==
    /\ calcStep = 1
    /\ calcOut2' = calculateRecordMetrics(calcOut)
    /\ calcStep' = 2
    /\ UNCHANGED <<calcIn, calcAlt, calcOut, calcOutAlt, appVars, formVars>>

CalcNext == Derive \/ DeriveAgain

SpecCalc == CalcInit /\ [][CalcNext]_vars

----------------------------------------------------------------------------
(* A form mounted over a record, filled in and submitted *)

PurchaseFormInputs ==
    [date : {<<>>, <<1>>, <<2>>},
     totalHens : {<<>>, <<Q(-1)>>, <<Q(0)>>, <<Q(2)>>, <<Norm(5, 2)>>},
     totalLiveWeight : {<<>>, <<Q(0)>>, <<Q(3)>>, <<Norm(7, 2)>>},
     purchaseRate : {<<>>, <<Q(-2)>>, <<Q(2)>>}]

SalesFormInputs ==
    [totalHens : {<<Q(0)>>, <<Q(2)>>, <<Q(4)>>, <<Norm(5, 2)>>},
     totalLiveWeight : {<<>>, <<Q(3)>>, <<Q(50)>>},
     purchaseRate : {<<Q(0)>>, <<Q(2)>>},
     sellingPrice : {<<>>, <<Q(0)>>, <<Q(2)>>, <<Q(10)>>},
     cashCollected : {<<>>, <<Q(-1)>>, <<Q(0)>>, <<Q(6)>>, <<Q(600)>>},
     upiCollected : {<<>>, <<Q(-1)>>, <<Q(0)>>, <<Q(4)>>},
     expenseTea : {<<>>, <<Q(-1)>>, <<Q(1)>>},
     expenseFuel : {<<>>, <<Q(-1)>>, <<Q(1)>>}]

\* the application showing a form: the purchase form for a new record
\* (startPurchaseEntry) or for a loaded one (handleEdit), or the sales form for a
\* loaded record (startSalesEntry, handleHistoryContinue)
FormsInit ==
    /\ store \in InitialStores
    /\ nextId = Cardinality(DOMAIN store)
    /\ now = 1
    /\ token = TRUE
    /\ user = TRUE
    /\ loading = FALSE
    /\ error = FALSE
    /\ records \in GetRecords(store)
    /\ timers = <<>>
    /\ tasks = EmptyBag
    /\ \/ /\ view = "ENTRY_PURCHASE"
          /\ activeRecord \in {NoRecord} \cup {records[i] : i \in 1..Len(records)}
          /\ formValues = PurchaseFormData(activeRecord, now)
       \/ /\ view = "ENTRY_SALES"
          /\ activeRecord \in {records[i] : i \in 1..Len(records)}
          /\ formValues = SalesFormData(activeRecord)
    /\ errors = {}
    /\ showSuccess = FALSE
    /\ CalcIdle

\* PurchaseForm.handleSubmit on what the operator has typed: validate (setErrors),
\* return if it fails, else build the record, setShowSuccess, setTimeout(onSave)
PurchaseFormSubmit ==
    /\ PurchaseFormShown /\ ~showSuccess
    /\ \E typed \in PurchaseFormInputs :
          /\ formValues' = typed
          /\ errors' = PurchaseErrors(typed)
          /\ IF IsValid(PurchaseErrors(typed))
             THEN /\ showSuccess' = TRUE
                  /\ timers' = Append(timers,
                        [kind |-> "savePurchase",
                         record |-> PurchaseRecord(activeRecord, typed, now)])
             ELSE UNCHANGED <<showSuccess, timers>>
    /\ UNCHANGED <<store, nextId, now, token, user, view, records, loading, error,
                   activeRecord, tasks, calcVars>>

\* SalesForm.handleSubmit on what the operator has typed: anything into the form
\* as it was mounted, one of a few corrections after a rejection
SalesFormSubmit ==
    /\ SalesFormShown /\ ~showSuccess
    /\ \E typed \in IF errors = {} THEN SalesFormInputs ELSE SalesInputs(activeRecord) :
          /\ formValues' = typed
          /\ errors' = SalesErrors(typed)
          /\ IF IsValid(SalesErrors(typed))
             THEN /\ showSuccess' = TRUE
                  /\ timers' = Append(timers,
                        [kind |-> "saveSales",
                         record |-> SalesRecord(activeRecord, typed, now)])
             ELSE UNCHANGED <<showSuccess, timers>>
    /\ UNCHANGED <<store, nextId, now, token, user, view, records, loading, error,
                   activeRecord, tasks, calcVars>>

\* handleSubmit run a second time while the success overlay is shown and the
\* timer of the first submission is still pending (the form has not been
\* unmounted): the overlay covers the fields, so nothing new is typed, but it
\* neither disables the submit button nor is looked at by handleSubmit, and the
\* key Enter on the focused button submits the same values again. The clock
\* ticks, so that there is one second submission (a third would be alike).
FormSubmitAgain ==
    /\ showSuccess /\ Len(timers) = 1 /\ now = 1
    /\ Tick
    /\ \/ /\ PurchaseFormShown
          /\ errors' = PurchaseErrors(formValues)
          /\ IsValid(PurchaseErrors(formValues))
          /\ timers' = Append(timers,
                [kind |-> "savePurchase",
                 record |-> PurchaseRecord(activeRecord, formValues, now)])
       \/ /\ SalesFormShown
          /\ errors' = SalesErrors(formValues)
          /\ IsValid(SalesErrors(formValues))
          /\ timers' = Append(timers,
                [kind |-> "saveSales",
                 record |-> SalesRecord(activeRecord, formValues, now)])
    /\ UNCHANGED <<store, nextId, token, user, view, records, loading, error,
                   activeRecord, tasks, calcVars, formValues, showSuccess>>

FormsNext ==
    \/ PurchaseFormSubmit
    \/ SalesFormSubmit
    \/ FormSubmitAgain
    \/ TimerFires
    \/ SaveResponse
    \/ SaveFailure
    \/ LoadResponse
    \/ LoadFailure

SpecForms == FormsInit /\ [][FormsNext]_vars

\* every pending timer runs, and every request in flight is answered or fails
FormsFairness ==
    /\ WF_vars(TimerFires)
    /\ WF_vars(SaveFailure \/ SaveResponse)
    /\ WF_vars(LoadFailure \/ LoadResponse)

SpecFormsLive == FormsInit /\ [][FormsNext]_vars /\ FormsFairness

----------------------------------------------------------------------------
(* saveRecord called with records drawn from a bounded set *)

\* records as saveRecord may be handed them: without an id, with an empty or a
\* blank id, with the id of a stored record or of none; with the flag and the
\* sales fields in every combination
SaveInputs ==
    { idPart @@ sales @@
      [weekDate |-> d, totalHens |-> Q(2), totalLiveWeight |-> Q(3),
       purchaseRate |-> Q(2), totalPurchaseCost |-> Zero, createdAt |-> 0,
       isSalesEntryComplete |-> c] :
        idPart \in {<<>>} \cup {[id |-> i] : i \in {"", " ", "id1", "id5"}},
        d \in {1, 2},
        c \in BOOLEAN,
        sales \in { <<>>,
                    [sellingPrice |-> Q(2), cashCollected |-> Q(6)],
                    [f \in SalesFields |-> Q(2)] } }

\* handleSavePurchase has called saveRecord(record): the request is on its way
SaveInit ==
    /\ store \in InitialStores
    /\ nextId = Cardinality(DOMAIN store)
    /\ now = 1
    /\ token = TRUE
    /\ user = TRUE
    /\ view = "ENTRY_PURCHASE"
    /\ records \in GetRecords(store)
    /\ loading = TRUE
    /\ error = FALSE
    /\ activeRecord = NoRecord
    /\ timers = <<>>
    /\ \E record \in SaveInputs :
          tasks = SetToBag({Task("savePurchase", "save", record, "", NoRecord)})
    /\ CalcIdle
    /\ FormIdle

SaveNext ==
    \/ SaveResponse
    \/ SaveFailure
    \/ LoadResponse
    \/ LoadFailure

SpecSave == SaveInit /\ [][SaveNext]_vars

----------------------------------------------------------------------------
(* Properties of calculateRecordMetrics *)

\* a purchase-state record as the data model has it: no sales-stage computed field
PurchaseStateInput(record) ==
    /\ ~record.isSalesEntryComplete
    /\ DOMAIN record \cap SalesComputedFields = {}

\* C1: for a purchase-state record the derivation sets totalPurchaseCost =
\* totalLiveWeight * purchaseRate and nothing else, and no sales-stage computed
\* field is present in the result.
C1_PurchaseOnlyCost ==
    (calcStep >= 1 /\ PurchaseStateInput(calcIn)) =>
        /\ calcOut.totalPurchaseCost = RMul(calcIn.totalLiveWeight, calcIn.purchaseRate)
        /\ DOMAIN calcOut \cap SalesComputedFields = {}
        /\ DOMAIN calcOut = DOMAIN calcIn \cup {"totalPurchaseCost"}
        /\ \A f \in DOMAIN calcIn \ {"totalPurchaseCost"} : calcOut[f] = calcIn[f]

C1_Witness ==
    /\ calcStep >= 1
    /\ PurchaseStateInput(calcIn)
    /\ Has(calcIn, "cashCollected")
    /\ calcOut.totalPurchaseCost = Q(6)

\* C2: deriving the metrics of an already derived record changes nothing.
C2_Idempotent ==
    calcStep = 2 => calcOut2 = calcOut

C2_Witness ==
    /\ calcStep = 2
    /\ calcIn.isSalesEntryComplete
    /\ calcIn # calcOut
    /\ calcOut.netProfit = Q(-3)

\* C3: two records with the same raw fields get the same nine computed fields,
\* whatever computed values they carried.
C3_ComputedFromRawOnly ==
    (calcStep >= 1 /\ Pick(calcIn, RawFields) = Pick(calcAlt, RawFields)) =>
        \A f \in ComputedFields :
            /\ Has(calcOut, f) <=> Has(calcOutAlt, f)
            /\ Has(calcOut, f) => calcOut[f] = calcOutAlt[f]

\* C10: for a sales-complete record netProfit = totalRevenue - (totalPurchaseCost +
\* totalExpenses), with totalRevenue = cash + upi and totalExpenses = tea + fuel,
\* absent components counting as 0; a loss is a negative netProfit.
C10_NetProfit ==
    (calcStep >= 1 /\ calcIn.isSalesEntryComplete) =>
        LET revenue  == RAdd(OrZero(calcIn, "cashCollected"), OrZero(calcIn, "upiCollected"))
            expenses == RAdd(OrZero(calcIn, "expenseTea"), OrZero(calcIn, "expenseFuel"))
            cost     == RMul(calcIn.totalLiveWeight, calcIn.purchaseRate)
        IN  /\ calcOut.totalRevenue = revenue
            /\ calcOut.totalExpenses = expenses
            /\ calcOut.netProfit = RSub(revenue, RAdd(cost, expenses))

C10_Witness ==
    /\ calcStep >= 1
    /\ calcIn.isSalesEntryComplete
    /\ ~Has(calcIn, "upiCollected")
    /\ RLt(calcOut.netProfit, Zero)

\* C11: for a sales-complete record meatSold is totalRevenue / sellingPrice when
\* sellingPrice > 0 and 0 when sellingPrice is zero or unset, whatever the revenue;
\* in that case wastage is totalLiveWeight and netProfit is still taken from the
\* whole totalRevenue.
C11_MeatSoldGuarded ==
    (calcStep >= 1 /\ calcIn.isSalesEntryComplete) =>
        LET price    == IF Has(calcIn, "sellingPrice") THEN calcIn.sellingPrice ELSE Zero
            revenue  == RAdd(OrZero(calcIn, "cashCollected"), OrZero(calcIn, "upiCollected"))
            expenses == RAdd(OrZero(calcIn, "expenseTea"), OrZero(calcIn, "expenseFuel"))
            cost     == RMul(calcIn.totalLiveWeight, calcIn.purchaseRate)
        IN  IF RGt(price, Zero)
            THEN RMul(calcOut.meatSold, price) = revenue
            ELSE /\ calcOut.meatSold = Zero
                 /\ calcOut.wastage = calcIn.totalLiveWeight
                 /\ calcOut.netProfit = RSub(RSub(revenue, cost), expenses)

\* a price of 0 with a revenue of 5
C11_Witness ==
    /\ calcStep >= 1
    /\ calcIn.isSalesEntryComplete
    /\ Has(calcIn, "sellingPrice") /\ calcIn.sellingPrice = Zero
    /\ Has(calcIn, "cashCollected") /\ calcIn.cashCollected = Q(5)
    /\ ~Has(calcIn, "upiCollected")
    /\ calcIn.totalLiveWeight = Q(3)
    /\ calcOut.meatSold = Zero
    /\ calcOut.wastage = Q(3)
    /\ calcOut.totalRevenue = Q(5)

\* a rational number: two integers, the denominator positive
IsNumber(x) ==
    /\ DOMAIN x = 1..2
    /\ x[1] \in Int /\ x[2] \in Int
    /\ x[2] > 0

\* C13: the derivation yields a record for every numeric input, and in a
\* sales-complete result wastagePercentage, profitPerHen and profitPerKg are 0 where
\* their divisor (totalLiveWeight, totalHens, meatSold) is not positive and the
\* quotient otherwise; every computed field is a number.
C13_DivisionsGuarded ==
    calcStep >= 1 =>
        /\ IsRecord(calcOut)
        /\ IsNumber(calcOut.totalPurchaseCost)
        /\ calcIn.isSalesEntryComplete =>
              /\ \A f \in SalesComputedFields : IsNumber(calcOut[f])
              /\ IF RGt(calcIn.totalLiveWeight, Zero)
                 THEN RMul(calcOut.wastagePercentage, calcIn.totalLiveWeight)
                         = RMul(calcOut.wastage, Q(100))
                 ELSE calcOut.wastagePercentage = Zero
              /\ IF RGt(calcIn.totalHens, Zero)
                 THEN RMul(calcOut.profitPerHen, calcIn.totalHens) = calcOut.netProfit
                 ELSE calcOut.profitPerHen = Zero
              /\ IF RGt(calcOut.meatSold, Zero)
                 THEN RMul(calcOut.profitPerKg, calcOut.meatSold) = calcOut.netProfit
                 ELSE calcOut.profitPerKg = Zero

\* no weight, no hens and a negative quantity of meat, with a profit that is not 0
C13_Witness ==
    /\ calcStep >= 1
    /\ calcIn.isSalesEntryComplete
    /\ calcIn.totalLiveWeight = Zero
    /\ calcIn.totalHens = Zero
    /\ RLt(calcOut.meatSold, Zero)
    /\ calcOut.netProfit # Zero
    /\ calcOut.wastagePercentage = Zero
    /\ calcOut.profitPerHen = Zero
    /\ calcOut.profitPerKg = Zero

----------------------------------------------------------------------------
(* Properties of the stored records *)

StoredIds == DOMAIN store

\* the record's id is absent, empty or blank
BlankId(record) == "id" \notin DOMAIN record \/ record.id \in {"", " ", "  "}

\* C4: every stored record has totalPurchaseCost = totalLiveWeight * purchaseRate,
\* in the purchase-only and in the sales-complete state.
C4_StoredPurchaseCost ==
    \A id \in StoredIds :
        store[id].totalPurchaseCost =
            RMul(store[id].totalLiveWeight, store[id].purchaseRate)

C4_Witness ==
    \E a, b \in StoredIds :
        /\ ~store[a].isSalesEntryComplete
        /\ store[a].createdAt >= 1
        /\ store[b].isSalesEntryComplete
        /\ store[b].totalLiveWeight = Q(5)
        /\ store[b].totalPurchaseCost = Q(10)

\* C12: in a stored sales-complete record wastage = totalLiveWeight - meatSold and
\* wastagePercentage = wastage / totalLiveWeight * 100, not clamped: where meatSold
\* exceeds totalLiveWeight both are stored negative.
C12_WastageNotClamped ==
    \A id \in StoredIds :
        store[id].isSalesEntryComplete =>
            LET r == store[id]
            IN  /\ RAdd(r.wastage, r.meatSold) = r.totalLiveWeight
                /\ RMul(r.wastagePercentage, r.totalLiveWeight) = RMul(r.wastage, Q(100))
                /\ RGt(r.meatSold, r.totalLiveWeight) =>
                      RLt(r.wastage, Zero) /\ RLt(r.wastagePercentage, Zero)

\* 5 kg of meat sold from 3 kg of live weight, stored
C12_Witness ==
    \E id \in StoredIds :
        /\ store[id].isSalesEntryComplete
        /\ store[id].totalLiveWeight = Q(3)
        /\ store[id].meatSold = Q(5)
        /\ store[id].wastage = Q(-2)
        /\ RLt(store[id].wastagePercentage, Zero)

\* C5: a stored record has its sales fields and its sales-derived computed fields
\* exactly when its isSalesEntryComplete flag is true.
C5_SalesFieldsIffComplete ==
    \A id \in StoredIds :
        \A f \in SalesFields \cup SalesComputedFields :
            Has(store[id], f) <=> store[id].isSalesEntryComplete

\* C6: once a stored record has isSalesEntryComplete = true, no step makes the
\* stored flag false again.
C6_ForwardOnly ==
    [][\A id \in StoredIds \cap DOMAIN store' :
          store[id].isSalesEntryComplete => store'[id].isSalesEntryComplete]_vars

\* C7: a sales submission for a record that is already sales-complete keeps the
\* salesCompletedAt of the first completion.
C7_CompletionStampKept ==
    [][\A id \in StoredIds \cap DOMAIN store' :
          (store[id].isSalesEntryComplete /\ Has(store[id], "salesCompletedAt")) =>
              /\ Has(store'[id], "salesCompletedAt")
              /\ store'[id].salesCompletedAt = store[id].salesCompletedAt]_vars

\* C8: the createdAt of a stored record is never changed by a later purchase edit
\* or sales submission.
C8_CreatedAtSetOnce ==
    [][\A id \in StoredIds \cap DOMAIN store' :
          Has(store[id], "createdAt") =>
              /\ Has(store'[id], "createdAt")
              /\ store'[id].createdAt = store[id].createdAt]_vars

\* the earlier purchase, edited in the purchase form and then completed in the
\* sales form
C8_Witness ==
    \E id \in StoredIds :
        /\ store[id].createdAt = 0
        /\ store[id].weekDate = 2
        /\ store[id].isSalesEntryComplete
        /\ store[id].salesCompletedAt > 1

\* C9: a record newly added to the store is in the Purchase state: the flag is
\* false, createdAt is stamped, the three purchase fields are set and no sales
\* field is present.
C9_CreatedInPurchaseState ==
    [][\A id \in DOMAIN store' \ StoredIds :
          /\ ~store'[id].isSalesEntryComplete
          /\ Has(store'[id], "createdAt")
          /\ store'[id].createdAt \in 1..(now - 1)
          /\ PurchaseFields \subseteq DOMAIN store'[id]
          /\ DOMAIN store'[id] \cap SalesFields = {}]_vars

C9_Witness ==
    \E id \in StoredIds :
        /\ store[id].createdAt >= 1
        /\ ~store[id].isSalesEntryComplete
        /\ \E other \in StoredIds : other # id /\ store[other].isSalesEntryComplete

\* C21: the loaded list is ordered by weekDate descending, whatever order the
\* records were created, edited or deleted in.
C21_LoadedListSorted ==
    \A i, j \in 1..Len(records) :
        i < j => records[i].weekDate >= records[j].weekDate

\* the record created later has the later weekDate and is listed first
C21_Witness ==
    /\ Len(records) = 2
    /\ records[1].id = "id2" /\ records[1].weekDate = 2
    /\ records[2].id = "id1" /\ records[2].weekDate = 1

\* C22: a record leaves the store only in the step that serves a delete of its id,
\* and that step removes no other record and changes none.
C22_RemovedOnlyByDelete ==
    [][\A id \in StoredIds \ DOMAIN store' :
          /\ \E t \in BagToSet(tasks) :
                t.kind = "delete" /\ t.pc = "save" /\ t.id = id
          /\ \A other \in StoredIds \ {id} :
                other \in DOMAIN store' /\ store'[other] = store[other]]_vars

\* the earlier record deleted, the one created after it still stored
C22_Witness ==
    /\ StoredIds = {"id2"}
    /\ nextId = 2
    /\ store["id2"].createdAt >= 1

\* C24: every stored sales-complete record has sellingPrice > 0 and totalRevenue
\* > 0, hence meatSold > 0 and profitPerKg = netProfit / meatSold.
C24_NoZeroRevenueSale ==
    \A id \in StoredIds :
        store[id].isSalesEntryComplete =>
            LET r == store[id]
            IN  /\ r.sellingPrice[1] > 0
                /\ r.totalRevenue[1] > 0
                /\ r.meatSold[1] > 0
                /\ RMul(r.profitPerKg, r.meatSold) = r.netProfit

\* a sale at a loss: the quotient is taken and is negative
C24_Witness ==
    \E id \in StoredIds :
        /\ store[id].isSalesEntryComplete
        /\ store[id].cashCollected = Q(5)
        /\ store[id].upiCollected = Zero
        /\ RLt(store[id].netProfit, Zero)
        /\ RLt(store[id].profitPerKg, Zero)

\* C25: the purchase form opened from the dashboard (startPurchaseEntry, or the
\* fallback of startSalesEntry when no record is pending) has no existing record,
\* whatever record was active before.
C25_NewPurchaseHasNoRecord ==
    [][(view = "DASHBOARD" /\ view' = "ENTRY_PURCHASE") => activeRecord' = NoRecord]_vars

\* a save request answered in this step
Resolved(t) ==
    /\ t.kind \in {"savePurchase", "saveSales"}
    /\ t.pc = "load"
    /\ CopiesIn(t, tasks') > CopiesIn(t, tasks)

\* C26: a save that resolves returns a record with a non-empty id, and the store
\* holds a record under that id, also when the update is of an id deleted before.
C26_ResolvedSaveIsStored ==
    [][\A t \in BagToSet(tasks') :
          Resolved(t) =>
              /\ IsRecord(t.saved)
              /\ Has(t.saved, "id")
              /\ t.saved.id # ""
              /\ t.saved.id \in DOMAIN store']_vars

\* C28: the record handed to the sales form has a non-empty id, and so has every
\* record a sales submission hands to saveRecord: the loaded records and the
\* active record have one.
C28_SalesSaveIsUpdate ==
    /\ \A i \in 1..Len(records) : Has(records[i], "id") /\ ~BlankId(records[i])
    /\ IsRecord(activeRecord) => Has(activeRecord, "id") /\ ~BlankId(activeRecord)
    /\ \A i \in 1..Len(timers) :
          timers[i].kind = "saveSales" => ~BlankId(timers[i].record)
    /\ \A t \in BagToSet(tasks) :
          t.kind = "saveSales" => ~BlankId(t.record)

\* the sales of a record created in this session, on their way as an update
C28_Witness ==
    \E t \in BagToSet(tasks) :
        /\ t.kind = "saveSales" /\ t.pc = "save"
        /\ t.record.id = "id2"
        /\ "id2" \in StoredIds

\* C29: while no user is logged in the list of records is empty.
C29_NoRecordsLoggedOut ==
    ~user => records = <<>>

----------------------------------------------------------------------------
(* Properties of the forms *)

\* the form last mounted has been submitted: validate has reported, or has passed
Submitted == showSuccess \/ errors # {}

PurchaseFormSubmitted == Submitted /\ "date" \in DOMAIN formValues

SalesFormSubmitted == Submitted /\ "sellingPrice" \in DOMAIN formValues

\* the text of a field is a number above 0, a whole number above 0, a number not
\* below 0 (the empty text counts as 0)
Positive(text) == text # <<>> /\ text[1][1] > 0

PositiveInteger(text) == Positive(text) /\ text[1][2] = 1

NonNegative(text) == text = <<>> \/ text[1][1] >= 0

\* the three numeric purchase rules on the fields of a form
PurchaseRulesHold(fields) ==
    /\ PositiveInteger(fields.totalHens)
    /\ Positive(fields.totalLiveWeight)
    /\ Positive(fields.purchaseRate)

\* the six sales rules on the fields of a form
SalesRulesHold(fields) ==
    /\ Positive(fields.sellingPrice)
    /\ NonNegative(fields.cashCollected)
    /\ NonNegative(fields.upiCollected)
    /\ RGt(RAdd(Number(fields.cashCollected), Number(fields.upiCollected)), Zero)
    /\ NonNegative(fields.expenseTea)
    /\ NonNegative(fields.expenseFuel)

\* a record whose totalHens is a whole number above 0 and whose weight and rate
\* are above 0
PurchaseFieldsValid(record) ==
    /\ record.totalHens[1] > 0 /\ record.totalHens[2] = 1
    /\ record.totalLiveWeight[1] > 0
    /\ record.purchaseRate[1] > 0

\* the records handed to onSave, on their way to the store
RecordsOnTheirWay ==
    {timers[i].record : i \in 1..Len(timers)}
    \cup {t.record : t \in {u \in BagToSet(tasks) : IsRecord(u.record)}}

\* C14: the purchase form accepts exactly the inputs with a date, a positive whole
\* totalHens, a positive weight and a positive rate; the sales form accepts only
\* inputs with the same three numeric rules; no record handed to onSave and no
\* stored record breaks them.
C14_PurchaseRules ==
    /\ PurchaseFormSubmitted =>
          (showSuccess <=> (formValues.date # <<>> /\ PurchaseRulesHold(formValues)))
    /\ SalesFormSubmitted => (showSuccess => PurchaseRulesHold(formValues))
    /\ \A record \in RecordsOnTheirWay : PurchaseFieldsValid(record)
    /\ \A id \in StoredIds : PurchaseFieldsValid(store[id])

\* the purchase fields changed in the sales form, accepted and stored
C14_Witness ==
    /\ SalesFormSubmitted
    /\ showSuccess
    /\ formValues.totalHens = <<Q(4)>>
    /\ formValues.totalLiveWeight = <<Q(50)>>
    /\ \E id \in StoredIds :
          /\ store[id].isSalesEntryComplete
          /\ store[id].totalHens = Q(4)
          /\ store[id].totalLiveWeight = Q(50)

SalesStageNames ==
    {"sellingPrice", "cashCollected", "upiCollected", "general",
     "expenseTea", "expenseFuel"}

\* C15: the sales-stage part of the validation reports nothing exactly when
\* sellingPrice > 0, cash >= 0, upi >= 0, cash + upi > 0, tea >= 0 and fuel >= 0;
\* with the purchase fields of the form valid, the submission is accepted exactly
\* then.
C15_SalesRules ==
    SalesFormSubmitted =>
        /\ (errors \cap SalesStageNames = {}) <=> SalesRulesHold(formValues)
        /\ PurchaseRulesHold(formValues) => (showSuccess <=> SalesRulesHold(formValues))

\* a price with no cash and no upi: rejected for the revenue alone
C15_Witness ==
    /\ SalesFormSubmitted
    /\ PurchaseRulesHold(formValues)
    /\ formValues.sellingPrice = <<Q(2)>>
    /\ formValues.cashCollected = <<Q(0)>>
    /\ formValues.upiCollected = <<Q(0)>>
    /\ errors = {"general"}
    /\ ~showSuccess
    /\ timers = <<>>

\* C16: a submission that validation rejects issues no save and applies nothing:
\* the store, the loaded list, the active record, the view, the timers and the
\* requests are as before, whatever fields of the submission were valid.
C16_NothingAppliedOnFailure ==
    [][(formVars' # formVars /\ errors' # {}) =>
          UNCHANGED <<store, nextId, records, activeRecord, view, loading,
                      timers, tasks>>]_vars

\* an edit of the stored purchase rejected for totalHens, its new weight valid
C16_Witness ==
    /\ PurchaseFormSubmitted
    /\ errors = {"totalHens"}
    /\ ~showSuccess
    /\ formValues.totalLiveWeight = <<Norm(7, 2)>>
    /\ view = "ENTRY_PURCHASE"
    /\ IsRecord(activeRecord)
    /\ store[activeRecord.id].totalLiveWeight = Q(3)
    /\ records[1].totalLiveWeight = Q(3)
    /\ timers = <<>>
    /\ tasks = EmptyBag

\* C17: the reported errors have an entry under the name of each field that breaks
\* its rule, all of them at once, and under no other field; the rule on cash + upi
\* is reported under 'general'.
C17_ErrorsExact ==
    /\ PurchaseFormSubmitted =>
          /\ errors \subseteq {"date", "totalHens", "totalLiveWeight", "purchaseRate"}
          /\ "date" \in errors <=> formValues.date = <<>>
          /\ "totalHens" \in errors <=> ~PositiveInteger(formValues.totalHens)
          /\ "totalLiveWeight" \in errors <=> ~Positive(formValues.totalLiveWeight)
          /\ "purchaseRate" \in errors <=> ~Positive(formValues.purchaseRate)
    /\ SalesFormSubmitted =>
          /\ errors \subseteq PurchaseFields \cup SalesStageNames
          /\ "totalHens" \in errors <=> ~PositiveInteger(formValues.totalHens)
          /\ "totalLiveWeight" \in errors <=> ~Positive(formValues.totalLiveWeight)
          /\ "purchaseRate" \in errors <=> ~Positive(formValues.purchaseRate)
          /\ "sellingPrice" \in errors <=> ~Positive(formValues.sellingPrice)
          /\ "cashCollected" \in errors <=> ~NonNegative(formValues.cashCollected)
          /\ "upiCollected" \in errors <=> ~NonNegative(formValues.upiCollected)
          /\ "expenseTea" \in errors <=> ~NonNegative(formValues.expenseTea)
          /\ "expenseFuel" \in errors <=> ~NonNegative(formValues.expenseFuel)
          /\ "general" \in errors <=>
                /\ Positive(formValues.sellingPrice)
                /\ ~RGt(RAdd(Number(formValues.cashCollected),
                             Number(formValues.upiCollected)), Zero)

\* five fields rejected at once, the others not reported
C17_Witness ==
    /\ SalesFormSubmitted
    /\ errors = {"totalHens", "totalLiveWeight", "sellingPrice", "cashCollected",
                 "expenseFuel"}
    /\ formValues.purchaseRate = <<Q(2)>>
    /\ formValues.upiCollected = <<Q(4)>>
    /\ formValues.expenseTea = <<Q(1)>>

\* C18: the warning is rendered exactly when the meatSold the derivation gives for
\* the record of the form's inputs exceeds the form's totalLiveWeight, and it does
\* not block: such a submission passes validation by the rules alone and the
\* record is stored with that meatSold.
C18_WarningMatchesDerivation ==
    "sellingPrice" \in DOMAIN formValues =>
        LET derived == calculateRecordMetrics(SalesRecord(activeRecord, formValues, now))
        IN  /\ WarningShown(formValues) <=>
                  RGt(derived.meatSold, Number(formValues.totalLiveWeight))
            /\ Submitted =>
                  (showSuccess <=>
                      (PurchaseRulesHold(formValues) /\ SalesRulesHold(formValues)))
            /\ \A id \in StoredIds :
                  store[id].isSalesEntryComplete =>
                      (WarningShown(formValues) <=>
                          RGt(store[id].meatSold, store[id].totalLiveWeight))

\* 50 kg of live weight, price 10, cash 600, upi 0: warned, accepted, stored
C18_Witness ==
    /\ SalesFormSubmitted
    /\ formValues.totalLiveWeight = <<Q(50)>>
    /\ formValues.sellingPrice = <<Q(10)>>
    /\ formValues.cashCollected = <<Q(600)>>
    /\ formValues.upiCollected = <<Q(0)>>
    /\ WarningShown(formValues)
    /\ showSuccess
    /\ \E id \in StoredIds :
          /\ store[id].isSalesEntryComplete
          /\ store[id].meatSold = Q(60)
          /\ store[id].totalLiveWeight = Q(50)

\* a save request failing in this step
Failed(t) ==
    /\ t.kind \in {"savePurchase", "saveSales"}
    /\ t.pc = "save"
    /\ tasks' = Finish(t)

CreatedSince == {id \in StoredIds : store[id].createdAt >= 1}

\* C27: one form, mounted once and filled in, schedules at most one save before
\* the first one runs, and creates at most one record.
C27_OneSavePerSession ==
    /\ Len(timers) <= 1
    /\ Cardinality(CreatedSince) <= 1

\* C30: loading is never true with no request in flight, and once the requests
\* are answered it is false again.
C30_LoadingClears ==
    /\ [](loading => tasks # EmptyBag)
    /\ loading ~> ~loading

\* a save failed while another was in flight, and all is settled
C30_Witness ==
    /\ ~loading
    /\ tasks = EmptyBag /\ timers = <<>>
    /\ now = 2
    /\ Cardinality(CreatedSince) = 1

----------------------------------------------------------------------------
(* Properties of saveRecord *)

\* sales fields present while the flag is false, or the flag true while sales
\* fields are missing
InconsistentState(record) ==
    \/ ~record.isSalesEntryComplete /\ DOMAIN record \cap SalesFields # {}
    \/ record.isSalesEntryComplete /\ ~(SalesFields \subseteq DOMAIN record)

\* C19: a record in an inconsistent state is rejected on its way through the
\* derivation, saveRecord and the backend: no stored record is in an inconsistent
\* state.
C19_InconsistentRejected ==
    \A id \in StoredIds : ~InconsistentState(store[id])

\* the one request of a behaviour, before and after it is answered
TheTask(bag) == CHOOSE t \in BagToSet(bag) : TRUE

\* C20: saveRecord creates exactly when the record's id is absent, empty or blank:
\* the answered request then adds one document under an id the store did not hold,
\* which is the id of the record returned, and changes no other; otherwise it adds
\* none and changes at most the document of the record's id. The ids of a loaded
\* list are not empty and pairwise distinct.
C20_CreateIffBlankId ==
    /\ [][(/\ tasks # EmptyBag /\ tasks' # EmptyBag
           /\ TheTask(tasks).pc = "save" /\ TheTask(tasks').pc = "load") =>
             LET record == TheTask(tasks).record
             IN  IF BlankId(record)
                 THEN \E new \in DOMAIN store' \ DOMAIN store :
                        /\ new # ""
                        /\ DOMAIN store' = DOMAIN store \cup {new}
                        /\ \A id \in DOMAIN store : store'[id] = store[id]
                        /\ "id" \notin DOMAIN store'[new]
                        /\ TheTask(tasks').saved.id = new
                 ELSE /\ DOMAIN store' = DOMAIN store
                      /\ \A id \in DOMAIN store \ {record.id} : store'[id] = store[id]
                      /\ record.id \in DOMAIN store =>
                            /\ TheTask(tasks').saved.id = record.id
                            /\ store'[record.id].weekDate = record.weekDate]_vars
    /\ [](\A i, j \in 1..Len(records) :
             /\ records[i].id # ""
             /\ i # j => records[i].id # records[j].id)

\* a record with a blank id, created next to the stored one
C20_Witness ==
    /\ tasks # EmptyBag
    /\ TheTask(tasks).pc = "load"
    /\ Has(TheTask(tasks).record, "id")
    /\ TheTask(tasks).record.id = " "
    /\ TheTask(tasks).saved.id = "id2"
    /\ DOMAIN store = {"id1", "id2"}
    /\ store["id2"].weekDate = 2

====
